---------------------------- MODULE Spec2Model ----------------------------
(***************************************************************************)
(* Model of ModelManager (src/src/ml-api/models.py), the in-memory model    *)
(* cache of the ML API service.                                             *)
(*                                                                          *)
(* Scheduling.  The service runs on one asyncio event loop.  A coroutine    *)
(* gives up the loop only at an await that suspends.  `async with           *)
(* self._lock` suspends only when the lock is held, `await                  *)
(* self._manage_cache()` never suspends, and no coroutine of ModelManager   *)
(* awaits anything else while it holds the lock.  A call of ModelManager    *)
(* therefore runs from its first line to its return in one step of the      *)
(* loop: the concurrency of the program is the set of calls that have been  *)
(* issued (tasks created) and not yet run, taken in any order.              *)
(*                                                                          *)
(* The dict loaded_models is a sequence of records in insertion order (a    *)
(* Python dict iterates in insertion order and sorted() is stable).         *)
(* Identifiers are the integers 1..NumModels, ordered as the names are.     *)
(* time.time() is a clock that never runs backwards and may return the      *)
(* same value twice.  The backing directory is outside the program: what a  *)
(* call finds there is an input of the step that runs the call.             *)
(*                                                                          *)
(* The observers are no state of the program: recency lists the resident    *)
(* identifiers in the order of their last use (a successful load_model or   *)
(* get_model), which is the order "least recently used" speaks of.  The     *)
(* field conc of a task holds the tasks whose same call (operation and      *)
(* identifier) was pending together with the call of the task, with no      *)
(* call between the two that removed their identifier from the dict.        *)
(* The fields lock, file and sidecar of a task record what the call met:    *)
(* whether its body ran inside `async with self._lock`, and what it found   *)
(* in the directory.  gone holds the identifiers that left the dict after a *)
(* get_model had counted an access of them; it is kept for the single       *)
(* caller only.                                                             *)
(*                                                                          *)
(* Specifications.  Spec: tasks calling the manager concurrently.  SeqSpec: *)
(* one caller, load_models included.  ServiceSpec: the manager as the       *)
(* lifespan of main.py builds it, with the handlers of the requests.        *)
(* FairSpec: the calls that take the lock, with the fairness of the loop.   *)
(***************************************************************************)
EXTENDS Integers, Sequences, FiniteSets, TLC

NumModels == 3
MaxCacheSize == 2
MaxTime == 1
MaxAccess == 2
NumTasks == 2
NumServed == 2

VARIABLES
    cache_size,     \* ModelManager.cache_size, fixed by __init__
    loaded_models,  \* ModelManager.loaded_models, in insertion order
    locked,         \* ModelManager._lock is held
    now,            \* the last value time.time() returned
    tasks,          \* per task: the call it issued and what the call returned
    recency,        \* observer: the resident identifiers, least recently used first
    gone,           \* observer: the identifiers removed after they had been accessed
    settings        \* the Settings of the service

vars == <<cache_size, loaded_models, locked, now, tasks, recency, gone, settings>>

\* ModelManager.__init__: cache_size: int = 10
DefaultCacheSize == 10
\* Settings.model_cache_size: default=10, env MODEL_CACHE_SIZE
DefaultModelCacheSize == 10
\* Settings(): every field at its default
DefaultSettings == [model_cache_size |-> DefaultModelCacheSize]
\* the Settings an environment with MODEL_CACHE_SIZE set to a capacity gives
ConfiguredSettings == [model_cache_size : 1..MaxCacheSize]

ModelNames == 1..NumModels
Tasks == 1..NumTasks
Times == 0..MaxTime
CacheSizes == (0 - 1)..MaxCacheSize

(***************************************************************************)
(* Python values.  None is the empty option, Some(v) a present value.       *)
(***************************************************************************)
None == <<>>
Some(v) == <<v>>

\* d.get(key) of a metadata document
dict_get(d, key) == IF key \in DOMAIN d THEN Some(d[key]) ELSE None
\* d.get(key, default) of a metadata document
dict_get_default(d, key, default) == IF key \in DOMAIN d THEN d[key] ELSE default

(***************************************************************************)
(* The backing directory, as one call finds it.                             *)
(***************************************************************************)
\* <name>.pkl: absent, present and not loadable by joblib, or loadable
FileStates == {"missing", "corrupt", "valid"}

\* the document save_model of the training pipeline writes: it has no "type" key
TrainingMetadata == [version |-> "1.0.0", input_shape |-> 10, output_shape |-> 2]
EmptyMetadata == <<>>

\* <name>_metadata.json: absent, present and not JSON, or a document
Sidecars == { [state |-> "absent", doc |-> EmptyMetadata],
              [state |-> "malformed", doc |-> EmptyMetadata],
              [state |-> "ok", doc |-> TrainingMetadata] }

\* The directory of the model: artifact 1 was saved by the training pipeline,
\* with its sidecar; the other artifacts were put there without one.  Any
\* sidecar may be unreadable when it is read.
SidecarsOf(model_name) ==
    { s \in Sidecars : \/ s.state = "malformed"
                       \/ s.state = (IF model_name = 1 THEN "ok" ELSE "absent") }

\* joblib.load(model_file): the handle of artifact model_name
joblib_load(model_name) == [artifact |-> model_name]

(***************************************************************************)
(* The dict loaded_models.                                                  *)
(***************************************************************************)
keys(d) == { d[i].name : i \in DOMAIN d }

\* d[model_name], for a key of d
item(d, model_name) == d[CHOOSE i \in DOMAIN d : d[i].name = model_name]

\* del d[model_name]
RECURSIVE dict_del(_, _)
dict_del(d, model_name) ==
    IF d = <<>> THEN <<>>
    ELSE IF Head(d).name = model_name THEN dict_del(Tail(d), model_name)
    ELSE <<Head(d)>> \o dict_del(Tail(d), model_name)

\* d[model_name] = rec: in place for a key of d, at the end for a new key
dict_set(d, model_name, rec) ==
    IF model_name \in keys(d)
    THEN [i \in DOMAIN d |-> IF d[i].name = model_name THEN rec ELSE d[i]]
    ELSE Append(d, rec)

\* what a call that returns before line 62 has seen of the sidecar: nothing
SidecarNotRead == [state |-> "unread", doc |-> EmptyMetadata]

\* the sidecar a load_model call meets: it looks for one only once joblib has
\* loaded the artifact of a model that is not loaded yet
SidecarsRead(d, model_name, file) ==
    IF model_name \notin keys(d) /\ file = "valid"
    THEN SidecarsOf(model_name)
    ELSE {SidecarNotRead}

\* sorted(d.items(), key=lambda x: x[1]["last_accessed"]): a stable sort
RECURSIVE insert_sorted(_, _)
insert_sorted(s, rec) ==
    IF s = <<>> THEN <<rec>>
    ELSE IF rec.last_accessed < Head(s).last_accessed THEN <<rec>> \o s
    ELSE <<Head(s)>> \o insert_sorted(Tail(s), rec)

\* a sort on the key (last_accessed, name): ties in the order of the names
RECURSIVE insert_by_time_then_name(_, _)
insert_by_time_then_name(s, rec) ==
    IF s = <<>> THEN <<rec>>
    ELSE IF \/ rec.last_accessed < Head(s).last_accessed
            \/ /\ rec.last_accessed = Head(s).last_accessed
               /\ rec.name < Head(s).name
         THEN <<rec>> \o s
    ELSE <<Head(s)>> \o insert_by_time_then_name(Tail(s), rec)

RECURSIVE sorted_by_time_then_name(_)
sorted_by_time_then_name(d) ==
    IF d = <<>> THEN <<>>
    ELSE insert_by_time_then_name(sorted_by_time_then_name(SubSeq(d, 1, Len(d) - 1)),
                                  d[Len(d)])

RECURSIVE sorted_by_last_accessed(_)
sorted_by_last_accessed(d) ==
    IF d = <<>> THEN <<>>
    ELSE insert_sorted(sorted_by_last_accessed(SubSeq(d, 1, Len(d) - 1)), d[Len(d)])

\* the loop of _manage_cache: delete sorted_models[i] for i in range(n);
\* sorted_models[i] raises IndexError once i reaches len(sorted_models)
RECURSIVE remove_oldest(_, _, _, _)
remove_oldest(d, sorted_models, i, n) ==
    IF i >= n THEN [models |-> d, raised |-> FALSE]
    ELSE IF i >= Len(sorted_models) THEN [models |-> d, raised |-> TRUE]
    ELSE remove_oldest(dict_del(d, sorted_models[i + 1].name), sorted_models, i + 1, n)

\* _manage_cache with the newest records removed: sorted(..., reverse=True)
manage_cache_newest_first(d, size) ==
    IF Len(d) <= size THEN [models |-> d, raised |-> FALSE]
    ELSE LET s == sorted_by_last_accessed(d)
         IN  remove_oldest(d, [i \in DOMAIN s |-> s[Len(s) + 1 - i]], 0, Len(d) - size)

\* _manage_cache that removes one record too few
manage_cache_off_by_one(d, size) ==
    IF Len(d) <= size THEN [models |-> d, raised |-> FALSE]
    ELSE remove_oldest(d, sorted_by_last_accessed(d), 0, Len(d) - size - 1)

\* _manage_cache that removes one record more than the surplus
manage_cache_one_more(d, size) ==
    IF Len(d) <= size THEN [models |-> d, raised |-> FALSE]
    ELSE LET n == Len(d) - size + 1
         IN  remove_oldest(d, sorted_by_last_accessed(d), 0,
                           IF n > Len(d) THEN Len(d) ELSE n)

\* ModelManager._manage_cache
_manage_cache(d, size) ==
    IF Len(d) <= size THEN [models |-> d, raised |-> FALSE]
    ELSE remove_oldest(d, sorted_by_last_accessed(d), 0, Len(d) - size)

\* the record with the trainer's version as the default: metadata.get("version", "1.0.0")
model_info_default_version(model_name, metadata, t1, t2) ==
    [ name |-> model_name,
      model |-> joblib_load(model_name),
      loaded_at |-> t1,
      metadata |-> metadata,
      version |-> dict_get_default(metadata, "version", "1.0.0"),
      type |-> dict_get_default(metadata, "type", "unknown"),
      input_shape |-> dict_get(metadata, "input_shape"),
      output_shape |-> dict_get(metadata, "output_shape"),
      access_count |-> 0,
      last_accessed |-> t2 ]

\* the record load_model stores; t1 and t2 are its two readings of time.time()
model_info(model_name, metadata, t1, t2) ==
    [ name |-> model_name,
      model |-> joblib_load(model_name),
      loaded_at |-> t1,
      metadata |-> metadata,
      version |-> dict_get_default(metadata, "version", "unknown"),
      type |-> dict_get_default(metadata, "type", "unknown"),
      input_shape |-> dict_get(metadata, "input_shape"),
      output_shape |-> dict_get(metadata, "output_shape"),
      access_count |-> 0,
      last_accessed |-> t2 ]

(***************************************************************************)
(* The operations, as functions of the dict and of their inputs.  Each      *)
(* yields the dict after the call, the value returned (ret) and the return  *)
(* statement taken (path).                                                  *)
(***************************************************************************)
\* the return statement of a load_model that stored its record
loaded_path(stored, managed) ==
    IF managed.raised THEN "cache_error"
    ELSE IF Len(managed.models) < Len(stored) THEN "loaded_evicting"
    ELSE "loaded"

\* load_model that stores the record before it reads the sidecar
load_model_store_first(d, size, model_name, file, sidecar, t1, t2) ==
    IF model_name \in keys(d)
    THEN [models |-> d, ret |-> "True", path |-> "already_loaded"]
    ELSE IF file = "missing"
    THEN [models |-> d, ret |-> "False", path |-> "no_file"]
    ELSE IF file = "corrupt"
    THEN [models |-> d, ret |-> "False", path |-> "load_error"]
    ELSE LET stored == dict_set(d, model_name,
                                model_info(model_name, sidecar.doc, t1, t2))
             managed == _manage_cache(stored, size)
         IN  IF sidecar.state = "malformed"
             THEN [models |-> stored, ret |-> "False", path |-> "metadata_error"]
             ELSE [models |-> managed.models,
                   ret |-> IF managed.raised THEN "False" ELSE "True",
                   path |-> loaded_path(stored, managed)]

\* load_model that counts a load of a resident model as a use of it
load_model_touch(d, size, model_name, file, sidecar, t1, t2) ==
    IF model_name \in keys(d)
    THEN [models |-> dict_set(d, model_name,
                        [item(d, model_name) EXCEPT !.last_accessed = t2]),
          ret |-> "True", path |-> "already_loaded"]
    ELSE IF file = "missing"
    THEN [models |-> d, ret |-> "False", path |-> "no_file"]
    ELSE IF file = "corrupt"
    THEN [models |-> d, ret |-> "False", path |-> "load_error"]
    ELSE IF sidecar.state = "malformed"
    THEN [models |-> d, ret |-> "False", path |-> "metadata_error"]
    ELSE LET stored == dict_set(d, model_name,
                                model_info(model_name, sidecar.doc, t1, t2))
             managed == _manage_cache(stored, size)
         IN  [models |-> managed.models,
              ret |-> IF managed.raised THEN "False" ELSE "True",
              path |-> loaded_path(stored, managed)]

\* load_model without the test `model_name in self.loaded_models`
load_model_no_check(d, size, model_name, file, sidecar, t1, t2) ==
    IF file = "missing"
    THEN [models |-> d, ret |-> "False", path |-> "no_file"]
    ELSE IF file = "corrupt"
    THEN [models |-> d, ret |-> "False", path |-> "load_error"]
    ELSE IF sidecar.state = "malformed"
    THEN [models |-> d, ret |-> "False", path |-> "metadata_error"]
    ELSE LET stored == dict_set(d, model_name,
                                model_info(model_name, sidecar.doc, t1, t2))
             managed == _manage_cache(stored, size)
         IN  [models |-> managed.models,
              ret |-> IF managed.raised THEN "False" ELSE "True",
              path |-> loaded_path(stored, managed)]

\* load_model that returns without the eviction pass
load_model_no_evict(d, size, model_name, file, sidecar, t1, t2) ==
    IF model_name \in keys(d)
    THEN [models |-> d, ret |-> "True", path |-> "already_loaded"]
    ELSE IF file = "missing"
    THEN [models |-> d, ret |-> "False", path |-> "no_file"]
    ELSE IF file = "corrupt"
    THEN [models |-> d, ret |-> "False", path |-> "load_error"]
    ELSE IF sidecar.state = "malformed"
    THEN [models |-> d, ret |-> "False", path |-> "metadata_error"]
    ELSE [models |-> dict_set(d, model_name,
                              model_info(model_name, sidecar.doc, t1, t2)),
          ret |-> "True", path |-> "loaded"]

\* load_model that stores the record field by field: a failure at the sidecar
\* leaves the part stored so far
load_model_partial(d, size, model_name, file, sidecar, t1, t2) ==
    IF model_name \in keys(d)
    THEN [models |-> d, ret |-> "True", path |-> "already_loaded"]
    ELSE IF file = "missing"
    THEN [models |-> d, ret |-> "False", path |-> "no_file"]
    ELSE IF file = "corrupt"
    THEN [models |-> d, ret |-> "False", path |-> "load_error"]
    ELSE IF sidecar.state = "malformed"
    THEN [models |-> Append(d, [name |-> model_name,
                                model |-> joblib_load(model_name),
                                loaded_at |-> t1]),
          ret |-> "False", path |-> "metadata_error"]
    ELSE LET stored == dict_set(d, model_name,
                                model_info(model_name, sidecar.doc, t1, t2))
             managed == _manage_cache(stored, size)
         IN  [models |-> managed.models,
              ret |-> IF managed.raised THEN "False" ELSE "True",
              path |-> loaded_path(stored, managed)]

\* ModelManager.load_model, inside the lock
load_model(d, size, model_name, file, sidecar, t1, t2) ==
    IF model_name \in keys(d)
    THEN [models |-> d, ret |-> "True", path |-> "already_loaded"]
    ELSE IF file = "missing"
    THEN [models |-> d, ret |-> "False", path |-> "no_file"]
    ELSE IF file = "corrupt"
    THEN [models |-> d, ret |-> "False", path |-> "load_error"]
    ELSE IF sidecar.state = "malformed"
    THEN [models |-> d, ret |-> "False", path |-> "metadata_error"]
    ELSE LET stored == dict_set(d, model_name,
                                model_info(model_name, sidecar.doc, t1, t2))
             managed == _manage_cache(stored, size)
         IN  [models |-> managed.models,
              ret |-> IF managed.raised THEN "False" ELSE "True",
              path |-> loaded_path(stored, managed)]

\* unload_model that reports success whether or not the model was loaded
unload_model_always_true(d, model_name) ==
    IF model_name \in keys(d)
    THEN [models |-> dict_del(d, model_name), ret |-> "True", path |-> "unloaded"]
    ELSE [models |-> d, ret |-> "True", path |-> "not_loaded"]

\* unload_model that empties the dict instead of deleting one key
unload_model_clear(d, model_name) ==
    IF model_name \in keys(d)
    THEN [models |-> <<>>, ret |-> "True", path |-> "unloaded"]
    ELSE [models |-> d, ret |-> "False", path |-> "not_loaded"]

\* ModelManager.unload_model, inside the lock
unload_model(d, model_name) ==
    IF model_name \in keys(d)
    THEN [models |-> dict_del(d, model_name), ret |-> "True", path |-> "unloaded"]
    ELSE [models |-> d, ret |-> "False", path |-> "not_loaded"]

\* get_model that forgets to count the access
get_model_no_count(d, model_name, t) ==
    IF model_name \in keys(d)
    THEN [models |-> dict_set(d, model_name,
                        [item(d, model_name) EXCEPT !.last_accessed = t]),
          ret |-> "model_info", path |-> "found"]
    ELSE [models |-> d, ret |-> "None", path |-> "not_found"]

\* get_model on a defaultdict: a miss leaves an empty entry behind
get_model_setdefault(d, model_name, t) ==
    IF model_name \in keys(d)
    THEN [models |-> dict_set(d, model_name,
                        [item(d, model_name) EXCEPT !.access_count = @ + 1,
                                                    !.last_accessed = t]),
          ret |-> "model_info", path |-> "found"]
    ELSE [models |-> dict_set(d, model_name,
                        model_info(model_name, EmptyMetadata, t, t)),
          ret |-> "None", path |-> "not_found"]

\* get_model that stamps the record with its loaded_at instead of the time
get_model_stamp_loaded_at(d, model_name, t) ==
    IF model_name \in keys(d)
    THEN [models |-> dict_set(d, model_name,
                        [item(d, model_name) EXCEPT !.access_count = @ + 1,
                                                    !.last_accessed = item(d, model_name).loaded_at]),
          ret |-> "model_info", path |-> "found"]
    ELSE [models |-> d, ret |-> "None", path |-> "not_found"]

\* ModelManager.get_model; t is its reading of time.time()
get_model(d, model_name, t) ==
    IF model_name \in keys(d)
    THEN [models |-> dict_set(d, model_name,
                        [item(d, model_name) EXCEPT !.access_count = @ + 1,
                                                    !.last_accessed = t]),
          ret |-> "model_info", path |-> "found"]
    ELSE [models |-> d, ret |-> "None", path |-> "not_found"]

\* cleanup that releases one record: popitem() for clear()
cleanup_popitem(d) == IF d = <<>> THEN <<>> ELSE SubSeq(d, 1, Len(d) - 1)

\* ModelManager.cleanup, inside the lock
cleanup(d) == <<>>

\* the entry of one record in the statistics
model_stats(info) ==
    [ version |-> info.version,
      type |-> info.type,
      loaded_at |-> info.loaded_at,
      access_count |-> info.access_count,
      last_accessed |-> info.last_accessed ]

\* get_model_stats that reads each record through get_model, which counts an access
get_model_stats_counting(d, size) ==
    [ models |-> [i \in DOMAIN d |-> [d[i] EXCEPT !.access_count = @ + 1]],
      stats |-> [ total_loaded |-> Len(d),
                  cache_size |-> size,
                  models |-> [n \in keys(d) |-> model_stats(item(d, n))] ] ]

\* ModelManager.get_model_stats: the dict after the call and the dict returned
get_model_stats(d, size) ==
    [ models |-> d,
      stats |-> [ total_loaded |-> Len(d),
                  cache_size |-> size,
                  models |-> [n \in keys(d) |-> model_stats(item(d, n))] ] ]

\* the handler list_models: the keys of the dict, in its order, and the stems of
\* the *.pkl files list_available_models finds in the directory
list_models(d, available) ==
    [ models |-> d,
      response |-> [ loaded_models |-> [i \in DOMAIN d |-> d[i].name],
                     available_models |-> available ] ]

(***************************************************************************)
(* The state machine.                                                       *)
(***************************************************************************)
Ops == {"load_model", "unload_model", "get_model", "cleanup", "get_model_stats",
        "list_models"}
\* the operations that take no model name
NoArgOps == {"cleanup", "get_model_stats", "list_models", "load_models"}
\* the argument slot of a call that takes none, or that has returned: an integer
\* that names no model
NoArg == CHOOSE n \in 0..NumModels : n \notin ModelNames

NoCall == [pc |-> "idle", op |-> "none", arg |-> NoArg, conc |-> {},
           ret |-> "none", path |-> "none", file |-> "none", sidecar |-> "none",
           lock |-> FALSE, expired |-> FALSE, todo |-> <<>>, ok |-> 0,
           features |-> 0, errors |-> <<>>]

Pending(op, arg) == [NoCall EXCEPT !.pc = "pending", !.op = op, !.arg = arg]

\* the return statements of load_model that follow the storing of the record
LoadedPaths == {"loaded", "loaded_evicting"}
StoredPaths == LoadedPaths \cup {"cache_error"}
\* the return statements of load_model that follow a read of the store
ReadPaths == StoredPaths \cup {"load_error", "metadata_error"}

\* the call has returned: its frame is gone, what it returned remains
Done(call, ret, path, file, sidecar) ==
    [call EXCEPT !.pc = "done", !.arg = NoArg, !.ret = ret, !.path = path,
                 !.file = file, !.sidecar = sidecar, !.lock = locked,
                 !.expired = FALSE, !.todo = <<>>, !.ok = 0,
                 !.features = 0, !.errors = <<>>]

\* the call ran its body inside `async with self._lock`
WithLock(call) == [call EXCEPT !.lock = TRUE]

\* observer: a pending call whose identifier the step has removed from the dict
\* by the call of task t (d before the step, d2 after it) no longer counts as
\* concurrent with the calls that ran before the removal
AfterRemoval(call, t, d, d2) ==
    IF call.pc = "pending" /\ call.arg \in keys(d) \ keys(d2)
    THEN [call EXCEPT !.conc = { v \in @ : v # t /\ tasks[v].pc = "pending" }]
    ELSE call

\* task u has the call op(arg) pending
HasPending(u, op, arg) ==
    tasks[u].pc = "pending" /\ tasks[u].op = op /\ tasks[u].arg = arg

\* a reading of time.time() after the reading t
TimeAfter(t) == { u \in Times : t <= u /\ u <= t + 1 }

\* recency once model_name has been used
Touch(r, model_name) ==
    SelectSeq(r, LAMBDA n : n # model_name) \o <<model_name>>

\* recency without the identifiers that are no longer keys of d
Resident(r, d) == SelectSeq(r, LAMBDA n : n \in keys(d))

\* observer: the value of gone when it is not kept
Unwatched == {NoArg}

\* observer: gone once the step from the dict d to the dict d2 is taken
Left(d, d2) ==
    IF gone = Unwatched THEN gone
    ELSE gone \cup { n \in keys(d) \ keys(d2) : item(d, n).access_count >= 1 }

\* what every call leaves as it is, and the observer gone
Frame ==
    /\ gone' = Left(loaded_models, loaded_models')
    /\ UNCHANGED settings

\* ModelManager.__init__
Constructed ==
    /\ cache_size \in CacheSizes
    /\ loaded_models = <<>>
    /\ locked = FALSE
    /\ now = 0
    /\ tasks = [t \in Tasks |-> NoCall]
    /\ recency = <<>>
    /\ settings = DefaultSettings

Init == Constructed /\ gone = Unwatched

\* a manager with a single caller, watched by the observer gone
SeqInit == Constructed /\ gone = {}

\* task t issues a call of one of the operations ops on one of the models names
Issue(t, ops, names) ==
    /\ tasks[t].pc \in {"idle", "done"}
    /\ \E op \in ops :
         \E arg \in (IF op \in NoArgOps THEN {NoArg} ELSE names) :
            tasks' = [u \in Tasks |->
                IF u = t
                THEN [Pending(op, arg) EXCEPT !.conc =
                        { v \in Tasks \ {t} : HasPending(v, op, arg) }]
                ELSE IF HasPending(u, op, arg)
                THEN [tasks[u] EXCEPT !.conc = @ \cup {t}]
                ELSE tasks[u]]
    /\ UNCHANGED <<cache_size, loaded_models, locked, now, recency, gone, settings>>

\* a request handler or background task calls an operation of the manager
Call(t) == Issue(t, Ops, ModelNames)

\* load_model with acquire() and release() for `async with`, and no release()
\* before the return of line 54
RunLoad_no_release(t) ==
    /\ tasks[t].pc = "pending" /\ tasks[t].op = "load_model"
    /\ ~locked
    /\ \E file \in FileStates :
       \E sidecar \in SidecarsRead(loaded_models, tasks[t].arg, file) :
         \E t1 \in TimeAfter(now) : \E t2 \in TimeAfter(t1) :
            LET r == load_model(loaded_models, cache_size, tasks[t].arg,
                                file, sidecar, t1, t2)
                stored == r.path \in StoredPaths
            IN  /\ loaded_models' = r.models
                /\ now' = IF stored THEN t2 ELSE now
                /\ recency' = IF stored
                              THEN Resident(Touch(recency, tasks[t].arg), r.models)
                              ELSE recency
                /\ tasks' = [u \in Tasks |->
                       IF u = t
                       THEN WithLock(Done(tasks[t], r.ret, r.path, file, sidecar.state))
                       ELSE AfterRemoval(tasks[u], t, loaded_models, r.models)]
                /\ locked' = (r.path = "no_file")
    /\ UNCHANGED cache_size
    /\ Frame

\* the loop runs a load_model call: lock, body, unlock
RunLoad(t) ==
    /\ tasks[t].pc = "pending" /\ tasks[t].op = "load_model"
    /\ ~locked
    /\ \E file \in FileStates :
       \E sidecar \in SidecarsRead(loaded_models, tasks[t].arg, file) :
         \E t1 \in TimeAfter(now) : \E t2 \in TimeAfter(t1) :
            LET r == load_model(loaded_models, cache_size, tasks[t].arg,
                                file, sidecar, t1, t2)
                stored == r.path \in StoredPaths
            IN  /\ loaded_models' = r.models
                /\ now' = IF stored THEN t2 ELSE now
                /\ recency' = IF stored
                              THEN Resident(Touch(recency, tasks[t].arg), r.models)
                              ELSE recency
                /\ tasks' = [u \in Tasks |->
                       IF u = t
                       THEN WithLock(Done(tasks[t], r.ret, r.path, file, sidecar.state))
                       ELSE AfterRemoval(tasks[u], t, loaded_models, r.models)]
    /\ locked' = FALSE
    /\ UNCHANGED cache_size
    /\ Frame

\* unload_model without `async with self._lock`
RunUnload_no_lock(t) ==
    /\ tasks[t].pc = "pending" /\ tasks[t].op = "unload_model"
    /\ LET r == unload_model(loaded_models, tasks[t].arg)
       IN  /\ loaded_models' = r.models
           /\ recency' = Resident(recency, r.models)
           /\ tasks' = [u \in Tasks |->
                  IF u = t THEN Done(tasks[t], r.ret, r.path, "none", "none")
                  ELSE AfterRemoval(tasks[u], t, loaded_models, r.models)]
    /\ UNCHANGED <<cache_size, locked, now>>
    /\ Frame

\* the loop runs an unload_model call: lock, body, unlock
RunUnload(t) ==
    /\ tasks[t].pc = "pending" /\ tasks[t].op = "unload_model"
    /\ ~locked
    /\ LET r == unload_model(loaded_models, tasks[t].arg)
       IN  /\ loaded_models' = r.models
           /\ recency' = Resident(recency, r.models)
           /\ tasks' = [u \in Tasks |->
                  IF u = t THEN WithLock(Done(tasks[t], r.ret, r.path, "none", "none"))
                  ELSE AfterRemoval(tasks[u], t, loaded_models, r.models)]
    /\ locked' = FALSE
    /\ UNCHANGED <<cache_size, now>>
    /\ Frame

\* the loop runs a get_model call; get_model takes no lock
RunGet(t) ==
    /\ tasks[t].pc = "pending" /\ tasks[t].op = "get_model"
    /\ \E u \in TimeAfter(now) :
         LET r == get_model(loaded_models, tasks[t].arg, u)
             found == r.ret = "model_info"
         IN  /\ \A i \in DOMAIN r.models : r.models[i].access_count <= MaxAccess
             /\ loaded_models' = r.models
             /\ now' = IF found THEN u ELSE now
             /\ recency' = IF found
                           THEN Resident(Touch(recency, tasks[t].arg), r.models)
                           ELSE recency
             /\ tasks' = [tasks EXCEPT ![t] = Done(tasks[t], r.ret, r.path, "none", "none")]
    /\ UNCHANGED <<cache_size, locked>>
    /\ Frame

\* the loop runs a cleanup call: lock, body, unlock
RunCleanup(t) ==
    /\ tasks[t].pc = "pending" /\ tasks[t].op = "cleanup"
    /\ ~locked
    /\ loaded_models' = cleanup(loaded_models)
    /\ recency' = Resident(recency, loaded_models')
    /\ tasks' = [u \in Tasks |->
           IF u = t
           THEN WithLock(Done(tasks[t], "None",
                              IF loaded_models = <<>> THEN "nothing_loaded"
                              ELSE "cleared", "none", "none"))
           ELSE AfterRemoval(tasks[u], t, loaded_models, loaded_models')]
    /\ locked' = FALSE
    /\ UNCHANGED <<cache_size, now>>
    /\ Frame

\* the loop runs a get_model_stats call; get_model_stats takes no lock
RunStats(t) ==
    /\ tasks[t].pc = "pending" /\ tasks[t].op = "get_model_stats"
    /\ loaded_models' = get_model_stats(loaded_models, cache_size).models
    /\ recency' = Resident(recency, loaded_models')
    /\ tasks' = [tasks EXCEPT ![t] = Done(tasks[t], "stats", "stats", "none", "none")]
    /\ UNCHANGED <<cache_size, locked, now>>
    /\ Frame

\* the loop runs the handler list_models, which takes no lock and awaits only
\* list_available_models, a coroutine that never suspends
RunList(t) ==
    /\ tasks[t].pc = "pending" /\ tasks[t].op = "list_models"
    /\ \E available \in SUBSET ModelNames :
          loaded_models' = list_models(loaded_models, available).models
    /\ recency' = Resident(recency, loaded_models')
    /\ tasks' = [tasks EXCEPT ![t] = Done(tasks[t], "response", "listed", "none", "none")]
    /\ UNCHANGED <<cache_size, locked, now>>
    /\ Frame

\* what task t can do next
Step(t) ==
    \/ Call(t)
    \/ RunLoad(t)
    \/ RunUnload(t)
    \/ RunGet(t)
    \/ RunCleanup(t)
    \/ RunStats(t)
    \/ RunList(t)

\* any number of tasks call the manager concurrently
Next == \E t \in Tasks : Step(t)

Spec == Init /\ [][Next]_vars

(***************************************************************************)
(* The calls that take the lock, under the scheduling of the event loop: a  *)
(* task that is ready to run is run, sooner or later.                       *)
(***************************************************************************)
LockedOps == {"load_model", "unload_model", "cleanup"}

LockCall(t) == Issue(t, LockedOps, ModelNames)

LockStep(t) ==
    \/ LockCall(t)
    \/ RunLoad(t)
    \/ RunUnload(t)
    \/ RunCleanup(t)

LockNext == \E t \in Tasks : LockStep(t)

\* the event loop runs every ready task
LoopFairness ==
    \A t \in Tasks :
        /\ WF_vars(RunLoad(t))
        /\ WF_vars(RunUnload(t))
        /\ WF_vars(RunCleanup(t))

FairSpec == Init /\ [][LockNext]_vars /\ LoopFairness

(***************************************************************************)
(* load_models, the warm-up of the lifespan.  It is a loop of load_model     *)
(* calls; the single caller runs it one call at a time.  The field todo of   *)
(* the task holds the files the glob has still to yield, ok the number of    *)
(* records that were resident when the loop started or that it has stored,  *)
(* ret what its last load_model returned.                                   *)
(***************************************************************************)
\* the sequences of n distinct model names
RECURSIVE Arrangements(_)
Arrangements(n) ==
    IF n = 0 THEN {<<>>}
    ELSE UNION { { Append(s, m) : m \in ModelNames \ { s[i] : i \in DOMAIN s } } :
                 s \in Arrangements(n - 1) }

\* the stems self.model_path.glob("*.pkl") can yield: any files, in any order
Listings == UNION { Arrangements(n) : n \in 0..NumModels }

\* the operations of the single caller: those of the handlers and load_models
SeqOps == Ops \cup {"load_models"}

SeqCall(t) == Issue(t, SeqOps, ModelNames)

\* load_models, lines 30-34: the directory is missing, or the glob is started
WarmStart(t) ==
    /\ tasks[t].pc = "pending" /\ tasks[t].op = "load_models"
    /\ \E exists \in BOOLEAN : \E listing \in Listings :
         tasks' = [tasks EXCEPT ![t] =
             IF exists
             THEN [tasks[t] EXCEPT !.pc = "warming", !.todo = listing,
                                   !.ok = Len(loaded_models)]
             ELSE Done(tasks[t], "None", "no_directory", "none", "none")]
    /\ UNCHANGED <<cache_size, loaded_models, locked, now, recency, gone, settings>>

\* load_models that gives up at the first load_model that fails
WarmLoad_stop_at_failure(t) ==
    /\ tasks[t].pc = "warming" /\ tasks[t].todo # <<>>
    /\ ~locked
    /\ \E file \in FileStates :
       \E sidecar \in SidecarsRead(loaded_models, Head(tasks[t].todo), file) :
         \E t1 \in TimeAfter(now) : \E t2 \in TimeAfter(t1) :
            LET model_name == Head(tasks[t].todo)
                r == load_model(loaded_models, cache_size, model_name,
                                file, sidecar, t1, t2)
                stored == r.path \in StoredPaths
            IN  /\ loaded_models' = r.models
                /\ now' = IF stored THEN t2 ELSE now
                /\ recency' = IF stored
                              THEN Resident(Touch(recency, model_name), r.models)
                              ELSE recency
                /\ tasks' = [u \in Tasks |->
                       IF u = t
                       THEN [tasks[t] EXCEPT
                               !.todo = IF r.ret = "True" THEN Tail(@) ELSE <<>>,
                               !.ok = IF r.path \in LoadedPaths THEN @ + 1 ELSE @,
                               !.ret = r.ret, !.lock = TRUE]
                       ELSE AfterRemoval(tasks[u], t, loaded_models, r.models)]
    /\ locked' = FALSE
    /\ UNCHANGED cache_size
    /\ Frame

\* load_models, lines 34-40: the next file of the glob, and load_model of its stem
WarmLoad(t) ==
    /\ tasks[t].pc = "warming" /\ tasks[t].todo # <<>>
    /\ ~locked
    /\ \E file \in FileStates :
       \E sidecar \in SidecarsRead(loaded_models, Head(tasks[t].todo), file) :
         \E t1 \in TimeAfter(now) : \E t2 \in TimeAfter(t1) :
            LET model_name == Head(tasks[t].todo)
                r == load_model(loaded_models, cache_size, model_name,
                                file, sidecar, t1, t2)
                stored == r.path \in StoredPaths
            IN  /\ loaded_models' = r.models
                /\ now' = IF stored THEN t2 ELSE now
                /\ recency' = IF stored
                              THEN Resident(Touch(recency, model_name), r.models)
                              ELSE recency
                /\ tasks' = [u \in Tasks |->
                       IF u = t
                       THEN [tasks[t] EXCEPT
                               !.todo = Tail(@),
                               !.ok = IF r.path \in LoadedPaths THEN @ + 1 ELSE @,
                               !.ret = r.ret, !.lock = TRUE]
                       ELSE AfterRemoval(tasks[u], t, loaded_models, r.models)]
    /\ locked' = FALSE
    /\ UNCHANGED cache_size
    /\ Frame

\* load_models: the glob is exhausted and the coroutine returns
WarmEnd(t) ==
    /\ tasks[t].pc = "warming" /\ tasks[t].todo = <<>>
    /\ tasks' = [tasks EXCEPT ![t] =
           [Done(tasks[t], "None", "warmed", "none", "none") EXCEPT !.lock = FALSE]]
    /\ UNCHANGED <<cache_size, loaded_models, locked, now, recency, gone, settings>>

\* what the single caller can do next
SeqStep(t) ==
    \/ SeqCall(t)
    \/ RunLoad(t)
    \/ RunUnload(t)
    \/ RunGet(t)
    \/ RunCleanup(t)
    \/ RunStats(t)
    \/ RunList(t)
    \/ WarmStart(t)
    \/ WarmLoad(t)
    \/ WarmEnd(t)

\* one caller: every call returns before the next is issued
SeqNext == SeqStep(1)

SeqSpec == SeqInit /\ [][SeqNext]_vars

(***************************************************************************)
(* The service (main.py): the lifespan builds the manager, and the handlers *)
(* of the requests call it.  The handler predict has no await: from          *)
(* get_model to its return it runs in one turn of the event loop, and the    *)
(* loop runs nothing else while model.predict computes.  The state          *)
(* "computing" is the handler inside model.predict.                         *)
(***************************************************************************)
\* the operations the handlers of the service call; "predict" is the handler itself
ServeOps == {"predict", "get_model", "load_model", "unload_model"}

\* the models the requests of the service name
ServedModels == 1..NumServed

\* len(request.features)
FeatureCounts == {TrainingMetadata.input_shape, TrainingMetadata.input_shape + 1}

\* model_info.get("input_shape", default): the record has the key, whatever the
\* sidecar held, and get returns its value, None included
info_get_input_shape(info, default) ==
    IF "input_shape" \in DOMAIN info THEN info.input_shape ELSE Some(default)

\* the test of line 222: len(request.features) != model_info.get("input_shape", ...)
invalid_input(info, features) ==
    Some(features) # info_get_input_shape(info, features)

\* predict, lines 260-268: `except Exception` catches whatever the try body has
\* raised, the HTTPException of lines 216 and 224 included (HTTPException is a
\* subclass of Exception), counts it as prediction_error after the error types
\* the try body has counted, and raises the HTTPException of status 500
except_Exception(call, path, counted) ==
    [Done(call, "500", path, "none", "none") EXCEPT
        !.errors = Append(counted, "prediction_error")]

\* predict, lines 214-219: the handler counts model_not_found and raises the 404
\* inside the try statement
raise_not_found(call) == except_Exception(call, "model_not_found", <<"model_not_found">>)

\* predict, lines 222-227: the handler counts invalid_input and raises the 400
\* inside the try statement; features is the len(request.features) it refused
raise_invalid_input(call, features) ==
    [except_Exception(call, "invalid_input", <<"invalid_input">>) EXCEPT
        !.features = features]

\* predict, line 231: the handler is inside model.predict(features)
call_predict(call, features) ==
    [call EXCEPT !.pc = "computing", !.features = features]

\* lifespan: ModelManager(settings.model_path), the capacity left at its default
lifespan(s) == [cache_size |-> DefaultCacheSize]

\* the state when the lifespan has built the manager; the loads of its warm-up are
\* among the load_model calls that follow
ServiceInit ==
    /\ settings \in ConfiguredSettings
    /\ cache_size = lifespan(settings).cache_size
    /\ loaded_models = <<>>
    /\ locked = FALSE
    /\ now = 0
    /\ tasks = [t \in Tasks |-> NoCall]
    /\ recency = <<>>
    /\ gone = Unwatched

\* the event loop is not inside a handler: no predict is computing
LoopIdle == \A u \in Tasks : tasks[u].pc # "computing"

\* a request arrives and its handler is started
Request(t) == LoopIdle /\ Issue(t, ServeOps, ServedModels)

\* predict with its body inside `async with model_manager._lock`
StartPredict_locked(t) ==
    /\ LoopIdle
    /\ tasks[t].pc = "pending" /\ tasks[t].op = "predict"
    /\ ~locked
    /\ \E u \in TimeAfter(now) : \E features \in FeatureCounts :
         LET r == get_model(loaded_models, tasks[t].arg, u)
             found == r.ret = "model_info"
         IN  /\ \A i \in DOMAIN r.models : r.models[i].access_count <= MaxAccess
             /\ loaded_models' = r.models
             /\ now' = IF found THEN u ELSE now
             /\ recency' = IF found
                           THEN Resident(Touch(recency, tasks[t].arg), r.models)
                           ELSE recency
             /\ locked' = (found /\ ~invalid_input(item(r.models, tasks[t].arg), features))
             /\ tasks' = [tasks EXCEPT ![t] =
                    IF ~found
                    THEN WithLock(raise_not_found(tasks[t]))
                    ELSE IF invalid_input(item(r.models, tasks[t].arg), features)
                    THEN WithLock(raise_invalid_input(tasks[t], features))
                    ELSE WithLock(call_predict(tasks[t], features))]
    /\ UNCHANGED cache_size
    /\ Frame

\* predict, lines 213-227: get_model, the 404 and the 400; both exceptions are
\* caught at line 260 and raised again as a 500
StartPredict(t) ==
    /\ LoopIdle
    /\ tasks[t].pc = "pending" /\ tasks[t].op = "predict"
    /\ \E u \in TimeAfter(now) : \E features \in FeatureCounts :
         LET r == get_model(loaded_models, tasks[t].arg, u)
             found == r.ret = "model_info"
         IN  /\ \A i \in DOMAIN r.models : r.models[i].access_count <= MaxAccess
             /\ loaded_models' = r.models
             /\ now' = IF found THEN u ELSE now
             /\ recency' = IF found
                           THEN Resident(Touch(recency, tasks[t].arg), r.models)
                           ELSE recency
             /\ tasks' = [tasks EXCEPT ![t] =
                    IF ~found
                    THEN raise_not_found(tasks[t])
                    ELSE IF invalid_input(item(r.models, tasks[t].arg), features)
                    THEN raise_invalid_input(tasks[t], features)
                    ELSE [call_predict(tasks[t], features) EXCEPT !.lock = locked]]
    /\ UNCHANGED <<cache_size, locked>>
    /\ Frame

\* predict, lines 231-268: model.predict returns or raises, and the handler answers
EndPredict(t) ==
    /\ tasks[t].pc = "computing"
    /\ \E raised \in BOOLEAN :
         tasks' = [tasks EXCEPT ![t] =
             IF raised
             THEN except_Exception(tasks[t], "prediction_error", <<>>)
             ELSE Done(tasks[t], "200", "predicted", "none", "none")]
    /\ UNCHANGED <<cache_size, loaded_models, locked, now, recency, gone, settings>>

\* Settings.model_timeout passes while a load_model call is pending; nothing in the
\* program reads the setting
Expire(t) ==
    /\ tasks[t].pc = "pending" /\ tasks[t].op = "load_model"
    /\ ~tasks[t].expired
    /\ tasks' = [tasks EXCEPT ![t].expired = TRUE]
    /\ UNCHANGED <<cache_size, loaded_models, locked, now, recency, gone, settings>>

\* the event loop, idle, runs a call of the manager
ServeLoad(t) == LoopIdle /\ RunLoad(t)
ServeUnload(t) == LoopIdle /\ RunUnload(t)
ServeGet(t) == LoopIdle /\ RunGet(t)

\* the event loop runs the pending call of task t
Scheduled(t) ==
    \/ ServeLoad(t)
    \/ ServeUnload(t)
    \/ ServeGet(t)
    \/ StartPredict(t)

ServeStep(t) ==
    \/ Request(t)
    \/ Scheduled(t)
    \/ EndPredict(t)
    \/ Expire(t)

ServeNext == \E t \in Tasks : ServeStep(t)

ServiceSpec == ServiceInit /\ [][ServeNext]_vars

(***************************************************************************)
(* Properties.                                                              *)
(***************************************************************************)
Min(a, b) == IF a < b THEN a ELSE b

\* this step runs the pending call of task t to its return
Returns(t) == tasks[t].pc = "pending" /\ tasks'[t].pc = "done"

\* this step runs the pending call op(...) of task t to its return
Runs(t, op) == Returns(t) /\ tasks[t].op = op

\* task t holds what its call op(...) returned
Returned(t, op) == tasks[t].pc = "done" /\ tasks[t].op = op

\* the identifiers this step removes from the dict
Removed == keys(loaded_models) \ keys(loaded_models')

\* the smallest last_accessed among the records of d
OldestAccess(d) ==
    CHOOSE a \in { d[i].last_accessed : i \in DOMAIN d } :
        \A i \in DOMAIN d : a <= d[i].last_accessed

\* along recency, last_accessed strictly increases: no two uses read the same time
ClockSeparatesUses ==
    \A i, j \in DOMAIN recency :
        i < j => item(loaded_models, recency[i]).last_accessed
                   < item(loaded_models, recency[j]).last_accessed

\* C1: in a cache built with cache_size >= 1, after every call of any sequence of
\* load_model, get_model, unload_model and cleanup calls, the number of resident
\* records is at most cache_size.
C1_CapacityInvariant ==
    cache_size >= 1 => Len(loaded_models) <= cache_size

\* a load has just evicted a record and left the cache full
C1_Witness ==
    /\ Returned(1, "load_model") /\ tasks[1].path = "loaded_evicting"
    /\ cache_size >= 1 /\ Len(loaded_models) = cache_size

\* this step is a successful load into a full cache of capacity >= 1
EvictingLoad(t) ==
    /\ Runs(t, "load_model")
    /\ tasks'[t].path \in LoadedPaths
    /\ cache_size >= 1
    /\ Len(loaded_models) = cache_size

\* C2: the load that overflows the cache evicts the least recently used
\* identifier, and never the most recently used one when another is resident.
C2_EvictsLeastRecentlyUsed ==
    [][\A t \in Tasks : EvictingLoad(t) =>
          /\ Removed = {Head(recency)}
          /\ cache_size >= 2 => recency[Len(recency)] \notin Removed]_vars

\* what the eviction pass does ensure: the load that overflows the cache evicts one
\* identifier, one whose last_accessed is the smallest; it is the least recently
\* used one whenever the clock has separated the uses of the resident identifiers.
EvictsOldestTimestamp ==
    [][\A t \in Tasks : EvictingLoad(t) =>
          /\ Cardinality(Removed) = 1
          /\ \A n \in Removed :
                item(loaded_models, n).last_accessed = OldestAccess(loaded_models)
          /\ ClockSeparatesUses => Removed = {Head(recency)}]_vars

\* tasks t and u hold the results of two load_model calls of one identifier that
\* were pending together, and no call removed the identifier between the two
ConcurrentLoads(t, u) ==
    /\ t # u
    /\ Returned(t, "load_model") /\ Returned(u, "load_model")
    /\ u \in tasks[t].conc /\ t \in tasks[u].conc

\* no read of the store failed in either call
ArtifactValid(t, u) ==
    /\ tasks[t].path \in LoadedPaths \cup {"already_loaded"}
    /\ tasks[u].path \in LoadedPaths \cup {"already_loaded"}

\* of two concurrent loads of an absent identifier, one reads the store and both
\* return True
C3_OneLoad ==
    \A t, u \in Tasks :
        ( /\ ConcurrentLoads(t, u) /\ ArtifactValid(t, u)
          /\ cache_size >= 1
          /\ tasks[t].path \in LoadedPaths )
        => /\ tasks[u].path = "already_loaded"
           /\ tasks[t].ret = "True" /\ tasks[u].ret = "True"

\* this step runs, with success, a load_model(n) of t while u has load_model(n) pending
FirstOfTwoLoads(t, u) ==
    /\ t # u
    /\ Runs(t, "load_model")
    /\ HasPending(u, "load_model", tasks[t].arg)
    /\ cache_size >= 1
    /\ tasks'[t].path \in LoadedPaths

\* C3, read to the letter: the first of two concurrent loads of an absent identifier
\* increases the resident count by exactly one.
C3_CountPlusOne ==
    [][\A t, u \in Tasks : FirstOfTwoLoads(t, u) =>
          Len(loaded_models') = Len(loaded_models) + 1]_vars

\* C3: of two concurrent load_model calls of an absent identifier with a
\* valid artifact (cache_size >= 1), with no call between them that removes the
\* identifier, exactly one reads the store and both return True; the first makes
\* the identifier resident, and the resident count becomes
\* min(count + 1, cache_size): one more unless the cache was full.
C3_ConcurrentLoadIdempotent ==
    /\ []C3_OneLoad
    /\ [][\A t, u \in Tasks : FirstOfTwoLoads(t, u) =>
            /\ tasks[t].arg \in keys(loaded_models')
            /\ Len(loaded_models') = Min(Len(loaded_models) + 1, cache_size)]_vars

\* two loads of one identifier were pending together; one read the store, the other
\* found the identifier loaded
C3_Witness ==
    /\ ConcurrentLoads(1, 2)
    /\ cache_size >= 1
    /\ tasks[1].path \in LoadedPaths
    /\ tasks[2].path = "already_loaded"
    /\ tasks[1].ret = "True" /\ tasks[2].ret = "True"

\* C4: a load_model that returns False, for whatever reason (no file, a file joblib
\* cannot load, an unreadable sidecar, an exception in the eviction pass), leaves
\* the dict as it was, and its identifier is not resident.
C4_LoadFailureAtomic ==
    [][\A t \in Tasks :
          (Runs(t, "load_model") /\ tasks'[t].ret = "False") =>
              /\ loaded_models' = loaded_models
              /\ tasks[t].arg \notin keys(loaded_models')]_vars

\* a load failed on its sidecar, after joblib had loaded the artifact, with
\* another model resident
C4_Witness ==
    /\ Returned(1, "load_model") /\ tasks[1].ret = "False"
    /\ tasks[1].path = "metadata_error"
    /\ Len(loaded_models) >= 1

\* C5: load_model of a resident identifier returns True without reading the store,
\* whatever has become of the artifact file, evicts nothing and leaves the dict
\* unchanged.
C5_ReloadIsNoOp ==
    [][\A t \in Tasks :
          (Runs(t, "load_model") /\ tasks[t].arg \in keys(loaded_models)) =>
              /\ tasks'[t].ret = "True"
              /\ tasks'[t].path \notin ReadPaths
              /\ loaded_models' = loaded_models]_vars

\* a resident identifier was loaded again when its file was gone, after a later
\* reading of the clock
C5_Witness ==
    /\ Returned(1, "load_model") /\ tasks[1].path = "already_loaded"
    /\ tasks[1].ret = "True" /\ tasks[1].file = "missing"
    /\ \E i \in DOMAIN loaded_models : loaded_models[i].last_accessed < now

\* C6: a get_model of a resident identifier adds one to its access_count, sets its
\* last_accessed to the time the call read, and changes nothing else; a record
\* starts with access_count 0 and no other call changes the stats of a record that
\* stays resident.  So after k gets since its load a record has access_count k.
C6_GetUpdatesStats ==
    [][\A t \in Tasks : Returns(t) =>
          LET hit == tasks[t].op = "get_model" /\ tasks[t].arg \in keys(loaded_models)
          IN  /\ hit => /\ tasks'[t].ret = "model_info"
                        /\ now' >= now
                        /\ Len(loaded_models') = Len(loaded_models)
                        /\ \A i \in DOMAIN loaded_models :
                              loaded_models'[i] =
                                 IF loaded_models[i].name = tasks[t].arg
                                 THEN [loaded_models[i] EXCEPT
                                          !.access_count = @ + 1,
                                          !.last_accessed = now']
                                 ELSE loaded_models[i]
              /\ ~hit => \A n \in keys(loaded_models') :
                            IF n \in keys(loaded_models)
                            THEN item(loaded_models', n) = item(loaded_models, n)
                            ELSE item(loaded_models', n).access_count = 0]_vars

\* a record has been got twice, the second time at a later time than its load, while
\* another record has not been got
C6_Witness ==
    /\ Returned(1, "get_model") /\ tasks[1].ret = "model_info"
    /\ \E i, j \in DOMAIN loaded_models :
          /\ loaded_models[i].access_count = 2
          /\ loaded_models[i].last_accessed = now
          /\ loaded_models[i].loaded_at < now
          /\ loaded_models[j].access_count = 0

\* C7: get_model of an identifier that is not resident returns None and leaves the
\* dict, with every record's stats, unchanged: no record is made, nothing is loaded.
C7_GetAbsent ==
    [][\A t \in Tasks :
          (Runs(t, "get_model") /\ tasks[t].arg \notin keys(loaded_models)) =>
              /\ tasks'[t].ret = "None"
              /\ loaded_models' = loaded_models
              /\ now' = now]_vars

\* a get missed while another model was resident
C7_Witness ==
    /\ Returned(1, "get_model") /\ tasks[1].ret = "None"
    /\ Len(loaded_models) >= 1

\* C8: unload_model of an identifier that is not resident returns False and leaves
\* the dict unchanged.
C8_UnloadAbsent ==
    [][\A t \in Tasks :
          (Runs(t, "unload_model") /\ tasks[t].arg \notin keys(loaded_models)) =>
              /\ tasks'[t].ret = "False"
              /\ loaded_models' = loaded_models]_vars

\* an unload found nothing to remove while another model was resident
C8_Witness ==
    /\ Returned(1, "unload_model") /\ tasks[1].ret = "False"
    /\ Len(loaded_models) >= 1

\* C9: unload_model of a resident identifier returns True; afterwards the identifier
\* is absent and every other record is resident with its fields unchanged.
C9_UnloadResident ==
    [][\A t \in Tasks :
          (Runs(t, "unload_model") /\ tasks[t].arg \in keys(loaded_models)) =>
              /\ tasks'[t].ret = "True"
              /\ keys(loaded_models') = keys(loaded_models) \ {tasks[t].arg}
              /\ Len(loaded_models') = Len(loaded_models) - 1
              /\ \A n \in keys(loaded_models') :
                    item(loaded_models', n) = item(loaded_models, n)]_vars

\* an unload removed one of two resident records
C9_Witness ==
    /\ Returned(1, "unload_model") /\ tasks[1].ret = "True"
    /\ cache_size >= 2 /\ Len(loaded_models) = cache_size - 1

\* a record of the dict is whole: every field load_model sets is there
FullyLoaded(rec) ==
    /\ DOMAIN rec = {"name", "model", "loaded_at", "metadata", "version", "type",
                     "input_shape", "output_shape", "access_count", "last_accessed"}
    /\ rec.name \in ModelNames
    /\ rec.model = joblib_load(rec.name)
    /\ rec.loaded_at \in Times /\ rec.last_accessed \in Times
    /\ rec.loaded_at <= rec.last_accessed /\ rec.last_accessed <= now
    /\ rec.access_count \in 0..MaxAccess
    /\ rec.version \in STRING /\ rec.type \in STRING

\* the dict is one a sequential run of the calls can leave
Consistent ==
    /\ \A i, j \in DOMAIN loaded_models :
          loaded_models[i].name = loaded_models[j].name => i = j
    /\ \A i \in DOMAIN loaded_models : FullyLoaded(loaded_models[i])
    /\ cache_size >= 1 => Len(loaded_models) <= cache_size
    /\ ~locked

\* C10: with calls of several tasks pending together and run in any order, every
\* call takes effect in one step, on a dict a sequential run could have left: no
\* identifier is there twice, every record is whole, the dict is within capacity
\* (cache_size >= 1), and the store is read for an identifier only when it is not
\* resident.
C10_ConcurrentConsistency ==
    /\ []Consistent
    /\ [][\A t \in Tasks :
            (Runs(t, "load_model") /\ tasks'[t].path \in ReadPaths) =>
                tasks[t].arg \notin keys(loaded_models)]_vars

\* both tasks hold results of calls that were pending together, on a full cache of
\* two records
C10_Witness ==
    /\ tasks[1].pc = "done" /\ tasks[2].pc = "done"
    /\ 2 \in tasks[1].conc /\ 1 \in tasks[2].conc
    /\ cache_size >= 2 /\ Len(loaded_models) = cache_size

\* C11: no ModelManager has a capacity below 1: its construction fails.
C11_CapacityPositive == cache_size >= 1

\* this step runs load_model of an identifier that is not resident, whose artifact
\* joblib loads, in a cache of capacity >= 1
LoadsNew(t) ==
    /\ Runs(t, "load_model")
    /\ tasks[t].arg \notin keys(loaded_models)
    /\ tasks'[t].file = "valid"
    /\ cache_size >= 1

\* C12: load_model of a valid artifact without a sidecar returns True and its record
\* has version "unknown", type "unknown" and no input_shape or output_shape; with
\* the sidecar of the training pipeline, which has no "type", the record has the
\* sidecar's version, input_shape and output_shape, and type "unknown".
C12_MetadataDefaults ==
    [][\A t \in Tasks : LoadsNew(t) =>
          LET n == tasks[t].arg
              rec == item(loaded_models', n)
          IN  /\ tasks'[t].sidecar = "absent" =>
                    /\ tasks'[t].ret = "True"
                    /\ n \in keys(loaded_models')
                    /\ rec.metadata = EmptyMetadata
                    /\ rec.version = "unknown" /\ rec.type = "unknown"
                    /\ rec.input_shape = None /\ rec.output_shape = None
              /\ tasks'[t].sidecar = "ok" =>
                    /\ tasks'[t].ret = "True"
                    /\ n \in keys(loaded_models')
                    /\ rec.metadata = TrainingMetadata
                    /\ rec.version = TrainingMetadata.version
                    /\ rec.type = "unknown"
                    /\ rec.input_shape = Some(TrainingMetadata.input_shape)
                    /\ rec.output_shape = Some(TrainingMetadata.output_shape)]_vars

\* a model without a sidecar has just been loaded next to the model of the training
\* pipeline
C12_Witness ==
    /\ Returned(1, "load_model") /\ tasks[1].path \in LoadedPaths
    /\ tasks[1].sidecar = "absent"
    /\ \E i, j \in DOMAIN loaded_models :
          /\ loaded_models[i].version = "unknown"
          /\ loaded_models[i].input_shape = None
          /\ loaded_models[j].version = TrainingMetadata.version
          /\ loaded_models[j].type = "unknown"

\* C13: get_model_stats and list_models change nothing: not the keys of the dict,
\* not a record.  The statistics have total_loaded equal to the number of records,
\* cache_size equal to the capacity, and one entry for each resident identifier, with
\* the version, type, loaded_at, access_count and last_accessed of its record; the
\* list has the resident identifiers, each once.
C13_SnapshotsPure ==
    [][\A t \in Tasks :
          /\ Runs(t, "get_model_stats") =>
                LET st == get_model_stats(loaded_models, cache_size).stats
                IN  /\ loaded_models' = loaded_models
                    /\ st.total_loaded = Cardinality(keys(loaded_models'))
                    /\ st.cache_size = cache_size
                    /\ DOMAIN st.models = keys(loaded_models')
                    /\ \A n \in keys(loaded_models') :
                          LET rec == item(loaded_models', n)
                          IN  /\ DOMAIN st.models[n] = {"version", "type", "loaded_at",
                                                        "access_count", "last_accessed"}
                              /\ st.models[n].version = rec.version
                              /\ st.models[n].type = rec.type
                              /\ st.models[n].loaded_at = rec.loaded_at
                              /\ st.models[n].access_count = rec.access_count
                              /\ st.models[n].last_accessed = rec.last_accessed
          /\ Runs(t, "list_models") =>
                LET l == list_models(loaded_models, {}).response.loaded_models
                IN  /\ loaded_models' = loaded_models
                    /\ Len(l) = Cardinality(keys(loaded_models'))
                    /\ { l[i] : i \in DOMAIN l } = keys(loaded_models')]_vars

\* statistics were taken of two records, one of them used
C13_Witness ==
    /\ Returned(1, "get_model_stats") /\ tasks[1].ret = "stats"
    /\ Len(loaded_models) = 2
    /\ \E i, j \in DOMAIN loaded_models :
          /\ loaded_models[i].access_count >= 1
          /\ loaded_models[j].access_count = 0

\* C14: when cleanup returns the dict is empty, whatever it held; cleanup runs its
\* body holding the lock, and it starts only when no load_model or unload_model of
\* another task is inside its critical section (the lock is free).
C14_ClearEmpties ==
    [][\A t \in Tasks : Runs(t, "cleanup") =>
          /\ loaded_models' = <<>>
          /\ recency' = <<>>
          /\ ~locked /\ tasks'[t].lock /\ ~locked']_vars

\* a cleanup has emptied a dict that held records while the other task had a load
\* pending
C14_Witness ==
    /\ Returned(1, "cleanup") /\ tasks[1].path = "cleared"
    /\ loaded_models = <<>>
    /\ tasks[2].pc = "pending" /\ tasks[2].op = "load_model"

\* this step runs a call of task t that reads the dict without the lock: get_model,
\* get_model_stats or the handler list_models
Observes(t) ==
    \/ Runs(t, "get_model")
    \/ Runs(t, "get_model_stats")
    \/ Runs(t, "list_models")

\* C15: a get_model, get_model_stats or list_models of a task, run between the calls
\* of another task in any order, never finds more than cache_size records in the
\* dict (cache_size >= 1), and never finds the lock held: it is not scheduled between
\* the storing of a record and the end of the eviction pass of that load.
C15_NoTransientOverCapacity ==
    [][\A t \in Tasks : Observes(t) =>
          /\ ~locked
          /\ cache_size >= 1 => Len(loaded_models) <= cache_size
          /\ cache_size >= 1 =>
                get_model_stats(loaded_models, cache_size).stats.total_loaded
                   <= cache_size]_vars

\* statistics were taken of a full cache right after an evicting load of the other
\* task, with which the call was pending
C15_Witness ==
    /\ Returned(1, "get_model_stats")
    /\ Returned(2, "load_model") /\ tasks[2].path = "loaded_evicting"
    /\ cache_size >= 1 /\ Len(loaded_models) = cache_size
    /\ now = 0

\* the step changes at most the access_count and last_accessed of the record of n
OnlyStatsOf(n) ==
    /\ Len(loaded_models') = Len(loaded_models)
    /\ \A i \in DOMAIN loaded_models :
          \/ loaded_models'[i] = loaded_models[i]
          \/ /\ loaded_models[i].name = n
             /\ loaded_models'[i] =
                   [loaded_models[i] EXCEPT
                       !.access_count = loaded_models'[i].access_count,
                       !.last_accessed = loaded_models'[i].last_accessed]

C17_NoPartialRecords ==
    \A i \in DOMAIN loaded_models :
        /\ FullyLoaded(loaded_models[i])
        /\ loaded_models[i].metadata \in {EmptyMetadata, TrainingMetadata}
        /\ loaded_models[i].input_shape \in {None, Some(TrainingMetadata.input_shape)}
        /\ loaded_models[i].output_shape \in {None, Some(TrainingMetadata.output_shape)}

\* a load of one task stopped at its sidecar, after joblib had loaded the artifact,
\* while the other task's load of another model went through
C17_Witness ==
    /\ Returned(1, "load_model") /\ tasks[1].path = "metadata_error"
    /\ Returned(2, "load_model") /\ tasks[2].path \in LoadedPaths
    /\ Len(loaded_models) >= 1

Max(a, b) == IF a > b THEN a ELSE b

\* the records of d that are not in d2 were last accessed no later than those in d2
RemovedAreOldest(d, d2) ==
    \A n \in keys(d) \ keys(d2) : \A m \in keys(d2) :
        item(d, n).last_accessed <= item(d2, m).last_accessed

\* _manage_cache, given the dict d and the capacity k >= 0, removes exactly
\* max(0, len(d) - k) records, none of them accessed later than a record it keeps,
\* and changes no record it keeps
MinimalEviction(d, k) ==
    LET m == _manage_cache(d, k)
    IN  /\ ~m.raised
        /\ Len(m.models) = Len(d) - Max(0, Len(d) - k)
        /\ Len(d) <= k => m.models = d
        /\ \A i \in DOMAIN m.models : \E j \in DOMAIN d : m.models[i] = d[j]
        /\ RemovedAreOldest(d, m.models)

\* C18: the eviction pass removes exactly max(0, size - capacity) records, in
\* ascending order of last_accessed, and none when size <= capacity, for every dict
\* the program reaches and every capacity from 0 to MaxCacheSize; and a successful
\* load_model of a new identifier leaves min(count before + 1, capacity) records,
\* the ones it removes being the least recently accessed.
C18_MinimalEviction ==
    /\ [](\A k \in 0..MaxCacheSize : MinimalEviction(loaded_models, k))
    /\ [][\A t \in Tasks :
            ( /\ Runs(t, "load_model")
              /\ tasks[t].arg \notin keys(loaded_models)
              /\ tasks'[t].ret = "True" ) =>
                /\ Len(loaded_models') = Min(Len(loaded_models) + 1, cache_size)
                /\ cache_size >= 1 =>
                      /\ tasks[t].arg \in keys(loaded_models')
                      /\ Cardinality(Removed) =
                            Max(0, Len(loaded_models) + 1 - cache_size)
                /\ RemovedAreOldest(loaded_models, loaded_models')]_vars

\* a load into a full cache of two records has removed one and kept the other, which
\* was accessed later
C18_Witness ==
    /\ Returned(1, "load_model") /\ tasks[1].path = "loaded_evicting"
    /\ cache_size = 2 /\ Len(loaded_models) = 2
    /\ loaded_models[1].last_accessed > loaded_models[1].loaded_at
    /\ loaded_models[1].access_count >= 1

\* the identifiers of d whose last_accessed is the smallest
Tied(d) == { n \in keys(d) : item(d, n).last_accessed = OldestAccess(d) }

\* the place of identifier n in the dict d
index(d, n) == CHOOSE i \in DOMAIN d : d[i].name = n

\* C19, as stated: when the load that overflows the cache finds several records with
\* the smallest last_accessed, it evicts the one with the smallest identifier.
C19_TieBreakByIdentifier ==
    [][\A t \in Tasks : EvictingLoad(t) =>
          \A n \in Removed : \A m \in Tied(loaded_models) : n <= m]_vars

\* C19: when the load that overflows the cache finds several records with the
\* smallest last_accessed, it evicts the one that comes first in the dict, which is
\* the one loaded first, whatever the identifiers.
C19_TieBreakByInsertion ==
    [][\A t \in Tasks : EvictingLoad(t) =>
          /\ Removed \subseteq Tied(loaded_models)
          /\ \A n \in Removed : \A m \in Tied(loaded_models) :
                index(loaded_models, n) <= index(loaded_models, m)]_vars

\* capacity 2 and a clock that has not moved: models 2 and 1 were loaded in that
\* order, and the load of model 3 has evicted model 2
C19_Witness ==
    /\ Returned(1, "load_model") /\ tasks[1].path = "loaded_evicting"
    /\ cache_size = 2 /\ now = 0
    /\ Len(loaded_models) = 2
    /\ loaded_models[1].name = 1 /\ loaded_models[2].name = 3

\* C20: an identifier becomes a key of the dict only in a load_model of that
\* identifier that returns True; a key leaves the dict only in an unload_model of it
\* that returns True, in the eviction pass of a load_model of another identifier that
\* returns True, or in a cleanup; get_model, get_model_stats, list_models and a
\* load_model that returns False leave the keys as they are.
C20_Lifecycle ==
    [][/\ \A n \in keys(loaded_models') \ keys(loaded_models) :
             \E t \in Tasks : /\ Runs(t, "load_model") /\ tasks[t].arg = n
                              /\ tasks'[t].ret = "True"
       /\ \A n \in keys(loaded_models) \ keys(loaded_models') :
             \E t \in Tasks :
                \/ /\ Runs(t, "unload_model") /\ tasks[t].arg = n
                   /\ tasks'[t].ret = "True"
                \/ /\ Runs(t, "load_model") /\ tasks[t].arg # n
                   /\ tasks'[t].ret = "True" /\ tasks'[t].path = "loaded_evicting"
                \/ Runs(t, "cleanup")
       /\ \A t \in Tasks :
             ( \/ Observes(t)
               \/ Runs(t, "load_model") /\ tasks'[t].ret = "False" )
             => keys(loaded_models') = keys(loaded_models)
       /\ (\A t \in Tasks : ~Returns(t)) =>
             keys(loaded_models') = keys(loaded_models)]_vars

\* one task holds the result of a load that failed after joblib had loaded the
\* artifact, the other that of a get that hit, and the model of the training
\* pipeline is resident
C20_Witness ==
    /\ Returned(1, "load_model") /\ tasks[1].ret = "False" /\ tasks[1].file = "valid"
    /\ Returned(2, "get_model") /\ tasks[2].ret = "model_info"
    /\ \E i \in DOMAIN loaded_models : loaded_models[i].name = 1

\* this step runs a load_model of task t that stores a new record and keeps it
StoresNew(t) ==
    /\ Runs(t, "load_model")
    /\ tasks'[t].path \in LoadedPaths
    /\ tasks[t].arg \in keys(loaded_models')

\* C21: when a load_model that stored a new record returns, the record has
\* access_count 0 and its last_accessed equals its loaded_at: one reading of the
\* clock went into both.
C21_FreshRecord ==
    [][\A t \in Tasks : StoresNew(t) =>
          LET rec == item(loaded_models', tasks[t].arg)
          IN  /\ rec.access_count = 0
              /\ rec.last_accessed = rec.loaded_at]_vars

\* what load_model does ensure of the record it stores: access_count 0, and two
\* readings of the clock, loaded_at first and last_accessed second, neither
\* earlier than any reading before the call
FreshRecordTwoReadings ==
    [][\A t \in Tasks : StoresNew(t) =>
          LET rec == item(loaded_models', tasks[t].arg)
          IN  /\ rec.access_count = 0
              /\ now <= rec.loaded_at
              /\ rec.loaded_at <= rec.last_accessed
              /\ rec.last_accessed = now']_vars


C29_LoadedStaysResident ==
    [][\A t \in Tasks :
          (Runs(t, "load_model") /\ tasks'[t].ret = "True" /\ cache_size >= 1) =>
              /\ tasks[t].arg \in keys(loaded_models')
              /\ tasks[t].arg \notin Removed
              /\ tasks'[t].path \in LoadedPaths =>
                    /\ loaded_models'[Len(loaded_models')].name = tasks[t].arg
                    /\ loaded_models'[Len(loaded_models')].last_accessed = now']_vars

\* a load into a full cache, with every reading of the clock the same, has evicted
\* an older record and kept its own, whose identifier is the smallest
C29_Witness ==
    /\ Returned(1, "load_model") /\ tasks[1].path = "loaded_evicting"
    /\ cache_size = 2 /\ now = 0
    /\ Len(loaded_models) = 2
    /\ loaded_models[2].name = 1
    /\ loaded_models[1].last_accessed = loaded_models[2].last_accessed


\* C23: a load_model reads the store only for an identifier that is absent, so an
\* identifier that is resident is never loaded again before it has left the dict;
\* and the record a load_model stores for an identifier, also for one that was
\* resident and accessed before, is the record of a first load: access_count 0,
\* loaded_at and last_accessed read from the clock during this call, nothing taken
\* from an earlier record.
C23_ReloadIsFresh ==
    [][\A t \in Tasks : Runs(t, "load_model") =>
          LET n == tasks[t].arg
              rec == item(loaded_models', n)
          IN  /\ tasks'[t].path \in ReadPaths => n \notin keys(loaded_models)
              /\ n \in keys(loaded_models) => loaded_models' = loaded_models
              /\ n \in keys(loaded_models') \ keys(loaded_models) =>
                    /\ rec.access_count = 0
                    /\ now <= rec.loaded_at /\ rec.loaded_at <= rec.last_accessed
                    /\ rec = model_info(n, rec.metadata, rec.loaded_at, now')]_vars

\* the record last stored is that of an identifier that had been resident and
\* accessed before and had left the dict: it is new, with a later loaded_at
C23_Witness ==
    /\ Returned(1, "load_model") /\ tasks[1].path \in LoadedPaths
    /\ cache_size >= 1 /\ loaded_models # <<>>
    /\ loaded_models[Len(loaded_models)].name \in gone
    /\ loaded_models[Len(loaded_models)].access_count = 0
    /\ loaded_models[Len(loaded_models)].loaded_at > 0


\* task t is inside model.predict
Computing(t) == tasks[t].pc = "computing"

\* C24: while a predict handler is inside model.predict (or predict_proba) the lock
\* of the manager is free: the handler got its record from get_model, which takes no
\* lock, and it acquires none; and the lock is free when the compute returns.
C24_ComputeOutsideLock ==
    /\ [](\A t \in Tasks : Computing(t) => ~locked /\ ~tasks[t].lock)
    /\ [][\A t \in Tasks : (Computing(t) /\ tasks'[t].pc = "done") =>
            ~locked /\ ~locked' /\ ~tasks'[t].lock]_vars

\* one predict is inside model.predict while the load_model of another task, called
\* before, waits for the loop
C24_Witness ==
    /\ Computing(1)
    /\ tasks[2].pc = "pending" /\ tasks[2].op = "load_model"
    /\ Len(loaded_models) >= 1


\* C25: while the predict of one request is inside model.predict, a pending
\* get_model, load_model or unload_model of another request can be run.
C25_InferenceDoesNotBlock ==
    \A t, u \in Tasks :
        ( /\ Computing(t)
          /\ tasks[u].pc = "pending"
          /\ tasks[u].op \in {"get_model", "load_model", "unload_model"} )
        => ENABLED Scheduled(u)

\* what the service does instead: from the call of model.predict to its return
\* no call of the manager runs and no request is taken; the dict stays as it is
ComputeHoldsLoop ==
    /\ [](\A t, u \in Tasks :
            (Computing(t) /\ tasks[u].pc = "pending") => ~ENABLED Scheduled(u))
    /\ [][(\E t \in Tasks : Computing(t)) =>
            /\ loaded_models' = loaded_models
            /\ \A u \in Tasks : tasks[u].pc = "pending" => tasks'[u].pc = "pending"]_vars


\* C26: a load_model whose timeout has passed while it waited returns a timeout
\* error, leaves the dict as it was and does not hold the lock; and a critical
\* section that was entered runs to its end: no state has a record stored and the
\* eviction pass still to come.
C26_LoadTimeout ==
    /\ [](~locked /\ Len(loaded_models) <= cache_size)
    /\ [][\A t \in Tasks : (Runs(t, "load_model") /\ tasks[t].expired) =>
            /\ tasks'[t].ret = "timeout"
            /\ loaded_models' = loaded_models
            /\ ~locked']_vars

\* what load_model does when the time has passed: what it does otherwise.  It
\* returns True or False, never a timeout, and stores the record if it can.
TimeoutIgnored ==
    [][\A t \in Tasks : Runs(t, "load_model") =>
          /\ tasks'[t].ret \in {"True", "False"}
          /\ \A sidecar \in SidecarsOf(tasks[t].arg) \cup {SidecarNotRead} :
                sidecar.state = tasks'[t].sidecar =>
                   loaded_models' =
                      load_model(loaded_models, cache_size, tasks[t].arg,
                                 tasks'[t].file, sidecar,
                                 IF tasks'[t].path \in LoadedPaths
                                 THEN item(loaded_models', tasks[t].arg).loaded_at
                                 ELSE now, now').models
          /\ ~locked']_vars


\* C27: the manager of the service has the capacity the settings give,
\* Settings.model_cache_size: whatever capacity c >= 1 is configured, the dict of
\* the service never holds more than c records.
C27_ConfiguredCapacity ==
    settings.model_cache_size >= 1 =>
        Len(loaded_models) <= settings.model_cache_size

\* what the service does ensure: its manager has the default capacity of
\* ModelManager, whatever the settings say, and the dict stays within that
DefaultCapacityUsed ==
    /\ cache_size = DefaultCacheSize
    /\ Len(loaded_models) <= cache_size


\* task t is inside the loop of load_models
Warming(t) == tasks[t].pc = "warming"

\* the names of s are distinct
Distinct(s) == \A i, j \in DOMAIN s : s[i] = s[j] => i = j

\* C28: load_models of a missing directory returns without a load and without an
\* error.  Otherwise it calls load_model once for each file the glob yields, in
\* turn, whatever the calls before returned: a load that fails leaves the files
\* after it to be tried.  It returns when the glob is exhausted, and the dict then
\* holds min(k, cache_size) records (cache_size >= 1), k being the number of
\* records resident when it started or stored by it: from the empty dict of the
\* startup, the number of loadable artifacts.
C28_WarmUp ==
    [][\A t \in Tasks :
          /\ (Runs(t, "load_models") /\ ~Warming(t)) =>
                /\ tasks'[t].path = "no_directory" /\ tasks'[t].ret = "None"
                /\ loaded_models' = loaded_models
          /\ (tasks[t].pc = "pending" /\ Warming(t)') =>
                /\ Distinct(tasks'[t].todo)
                /\ tasks'[t].ok = Len(loaded_models)
                /\ loaded_models' = loaded_models
          /\ (Warming(t) /\ tasks[t].todo # <<>>) =>
                /\ Warming(t)'
                /\ tasks'[t].todo = Tail(tasks[t].todo)
                /\ keys(loaded_models') \ keys(loaded_models) \subseteq {Head(tasks[t].todo)}
                /\ tasks'[t].ret = "True" /\ cache_size >= 1 =>
                      Head(tasks[t].todo) \in keys(loaded_models')
                /\ tasks'[t].ret = "False" => loaded_models' = loaded_models
          /\ (Warming(t) /\ tasks'[t].pc = "done") =>
                /\ tasks[t].todo = <<>>
                /\ tasks'[t].path = "warmed" /\ tasks'[t].ret = "None"
                /\ loaded_models' = loaded_models
                /\ cache_size >= 1 =>
                      Len(loaded_models) = Min(tasks[t].ok, cache_size)]_vars

\* the loop has tried every file; it stored two records in a cache of capacity 1,
\* which holds one, and its last load failed
C28_Witness ==
    /\ Warming(1) /\ tasks[1].todo = <<>>
    /\ tasks[1].ret = "False"
    /\ tasks[1].ok = 2 /\ cache_size = 1
    /\ Len(loaded_models) = 1


\* C30: every load_model, unload_model and cleanup finds the lock free, holds it
\* for its body and has released it when it returns, by whichever return statement
\* (already loaded, no file, a file joblib cannot load, an unreadable sidecar, an
\* error of the eviction pass, success); so the lock is free between the calls, and
\* with an event loop that runs every ready task, every such call that was issued
\* returns.
C30_LockReleaseAndProgress ==
    /\ []~locked
    /\ [][\A t \in Tasks : Returns(t) =>
            /\ tasks[t].op \in LockedOps
            /\ ~locked /\ tasks'[t].lock /\ ~locked']_vars
    /\ \A t \in Tasks : (tasks[t].pc = "pending") ~> (tasks[t].pc = "done")

\* a load that found no file has returned holding nothing, and so has a cleanup of
\* the other task: the lock is free
C30_Witness ==
    /\ Returned(1, "load_model") /\ tasks[1].path = "no_file" /\ tasks[1].lock
    /\ Returned(2, "cleanup") /\ tasks[2].lock
    /\ ~locked


\* this step runs the handler predict of task t from its start to its 404, its
\* 400 or its call of model.predict
Handles(t) ==
    /\ tasks[t].pc = "pending" /\ tasks[t].op = "predict"
    /\ tasks'[t].pc # "pending"

\* the handler of task t has refused the request at its input validation
Refused(t) == tasks[t].pc = "done" /\ tasks[t].path = "invalid_input"

\* C31: a predict request that names a model that is not in the dict is answered
\* with the 404, counted once, as model_not_found, without a call of model.predict
\* and with the dict as it was; a request the input validation refuses is answered
\* with the 400.
C31_PredictRejections ==
    [][\A t \in Tasks : Handles(t) =>
          /\ tasks[t].arg \notin keys(loaded_models) =>
                /\ tasks'[t].pc = "done" /\ tasks'[t].ret = "404"
                /\ tasks'[t].errors = <<"model_not_found">>
                /\ loaded_models' = loaded_models
          /\ Refused(t)' => tasks'[t].ret = "400"]_vars

\* what the handler does instead: both refusals are answered with the 500 of the
\* except clause and counted a second time, as prediction_error; no model.predict
\* is called and the dict of a request for an absent model stays as it is
RejectionsAnswered500 ==
    [][\A t \in Tasks : Handles(t) =>
          /\ tasks[t].arg \notin keys(loaded_models) =>
                /\ tasks'[t].pc = "done" /\ tasks'[t].ret = "500"
                /\ tasks'[t].errors = <<"model_not_found", "prediction_error">>
                /\ loaded_models' = loaded_models
          /\ Refused(t)' =>
                /\ tasks'[t].ret = "500"
                /\ tasks'[t].errors = <<"invalid_input", "prediction_error">>]_vars

\* a request for a model that is not loaded has been answered, and so has one the
\* validation refused
RejectionsReached ==
    /\ Returned(1, "predict") /\ tasks[1].path = "model_not_found"
    /\ Refused(2)


\* C32: the input validation of predict refuses a request only when the record of
\* the model has an input_shape and the number of features is another; a request
\* for a model whose record has no input_shape (loaded without a sidecar) passes
\* the validation with any number of features and reaches model.predict.
C32_ValidationOptional ==
    [][\A t \in Tasks :
          (Handles(t) /\ tasks[t].arg \in keys(loaded_models)) =>
             LET info == item(loaded_models, tasks[t].arg)
             IN  /\ Refused(t)' =>
                       /\ info.input_shape # None
                       /\ info.input_shape # Some(tasks'[t].features)
                 /\ info.input_shape = None => Computing(t)']_vars

\* what the validation does instead: the record always has the key input_shape, so
\* the default of get is never taken; a record without input_shape is compared as
\* None and every request for it is refused, and a record with one is refused
\* exactly when the number of features is another
ShapelessAlwaysRefused ==
    [][\A t \in Tasks :
          (Handles(t) /\ tasks[t].arg \in keys(loaded_models)) =>
             LET info == item(loaded_models, tasks[t].arg)
             IN  /\ info.input_shape = None => Refused(t)'
                 /\ info.input_shape # None =>
                       (Refused(t)' <=> info.input_shape # Some(tasks'[t].features))
                 /\ ~Refused(t)' => Computing(t)']_vars

\* a model loaded without a sidecar is resident, and a request for it with the
\* number of features its training used has been refused
ShapelessRefused ==
    /\ Refused(1) /\ tasks[1].features = TrainingMetadata.input_shape
    /\ tasks[1].op = "predict"
    /\ \E i \in DOMAIN loaded_models :
          loaded_models[i].input_shape = None /\ loaded_models[i].access_count >= 1

=============================================================================
